---- MODULE Spec2Model ----
(***************************************************************************)
(* The MCP gateway of src/mcp_gateway/server.py as a state machine.        *)
(*                                                                         *)
(* The gateway is one asyncio event loop.  Every request is served by its  *)
(* own task, so the handlers interleave at their await expressions and     *)
(* nowhere else: an action of this module is the code a task runs from one *)
(* suspension point to the next.  The value of pc[t] names the await at    *)
(* which task t is suspended.                                              *)
(***************************************************************************)
EXTENDS Integers, Sequences, FiniteSets, TLC

VARIABLES
    registry_file,     \* content of registry_path: the list under "servers"
    registry_entries,  \* MCPGateway.registry_entries (insertion-ordered dict)
    sessions,          \* MCPGateway.sessions         (id -> session)
    stdio_contexts,    \* MCPGateway.stdio_contexts   (id -> transport context)
    http_clients,      \* MCPGateway.http_clients     (id -> HTTP client)
    server_tools,      \* MCPGateway.server_tools     (insertion-ordered dict)
    tools,             \* MCPGateway.tools            (the served catalog)
    tool_map,          \* MCPGateway.tool_map         (namespaced name -> pair)
    opened,            \* the transports, sessions and HTTP clients now open
    verified,          \* history: the entries whose connect has succeeded
    secret,            \* os.environ["MCP_GATEWAY_ADMIN_TOKEN"], None if unset
    phase,             \* run_server: "starting", "loading", "serving", "failed"
    idx,               \* connect(): index of the next entry of the bulk connect
    pc,                \* per task: "idle" or the await it is suspended at
    req,               \* per task: the request (name, arguments) it serves
    cid,               \* per task: the connection its _connect_entry creates
    cont,              \* per task: what follows the _disconnect_entry it is in
    calls,             \* number of calls started so far
    returned,          \* the call that returned in the last step, if one did
    file0,             \* history: the file when the call of the task began (Changed once the call wrote it)
    prev,              \* history: the connection the id had when the task's call began
    outcome,           \* history: what the admin calls served so far have answered
    attempted,         \* history: the resources whose close MCPGateway.close has awaited
    client,            \* the MCPClient object of src/mcp_client/client.py
    resolution         \* the argument loop of _connect_entry: args, the disk, resolved_args

gwvars == <<registry_file, registry_entries, sessions, stdio_contexts, http_clients,
            server_tools, tools, tool_map, opened, verified>>
vars == <<registry_file, registry_entries, sessions, stdio_contexts, http_clients,
          server_tools, tools, tool_map, opened, verified, secret, phase, idx, pc, req, cid,
          cont, calls, returned, file0, prev, outcome, attempted, client, resolution>>

\* The number of requests the gateway serves in one behaviour.
MaxCalls == 2

\* The tasks that serve requests concurrently.
Tasks == {"t1", "t2"}

\* Python's None: an unset environment variable, a JSON null, a missing key.
None == "None"

\* No connection (history value).
NoConn == 0

-----------------------------------------------------------------------------
(* Python dicts.  A dict whose order is never read is a function; a dict    *)
(* whose order is read (registry_entries, server_tools) is a sequence of    *)
(* [k, v] records with distinct keys, in insertion order.                   *)

Get(d, k, default) == IF k \in DOMAIN d THEN d[k] ELSE default

DictSet(d, k, v) == [x \in (DOMAIN d) \cup {k} |-> IF x = k THEN v ELSE d[x]]

DictDel(d, k) == [x \in (DOMAIN d) \ {k} |-> d[x]]

EmptyDict == [x \in {} |-> None]

OdKeys(d) == {d[i].k : i \in 1..Len(d)}

OdHas(d, k) == k \in OdKeys(d)

OdGet(d, k) == d[CHOOSE i \in 1..Len(d) : d[i].k = k].v

OdSet(d, k, v) ==
    IF OdHas(d, k)
    THEN [i \in 1..Len(d) |-> IF d[i].k = k THEN [k |-> k, v |-> v] ELSE d[i]]
    ELSE Append(d, [k |-> k, v |-> v])

OdDel(d, k) == SelectSeq(d, LAMBDA e : e.k # k)

OdValues(d) == [i \in 1..Len(d) |-> d[i].v]

RECURSIVE Flatten(_)
Flatten(ss) == IF ss = <<>> THEN <<>> ELSE Head(ss) \o Flatten(Tail(ss))

-----------------------------------------------------------------------------
(* Server entries and requests.                                             *)

SrvA1 == [id |-> "a", type |-> "stdio", command |-> "srv1"]
SrvA2 == [id |-> "a", command |-> "srv2"]
SrvB1 == [id |-> "b", type |-> "streamable-http", url |-> "http://h/mcp"]
SrvB2 == [id |-> "b", type |-> "sse"]
SrvNoId == [type |-> "stdio", command |-> "srv1"]
SrvEmptyId == [id |-> "", command |-> "srv1"]
SrvA3 == [id |-> "a", command |-> "srv3"]
SrvAX == [id |-> "a.x", command |-> "srv2"]
SrvB3 == [id |-> "b", type |-> "streamable-http", url |-> "https://h/v2"]

\* The registry file the gateway is started with.
InitialFiles == {<<>>, <<SrvB2>>, <<SrvA1>>, <<SrvA1, SrvB1>>}

\* The values of MCP_GATEWAY_ADMIN_TOKEN.
Secrets == {None, "", "s3cret"}

WithToken(d, tok) == [x \in (DOMAIN d) \cup {"admin_token"} |->
                        IF x = "admin_token" THEN tok ELSE d[x]]

\* The requests a client sends: a tool name and its arguments.
Requests ==
    {[name |-> "admin.register_server", arguments |-> s] :
        s \in {SrvA2, SrvB3, SrvB2, SrvNoId,
               WithToken(SrvA2, "s3cret"), WithToken(SrvB2, "wrong")}}
    \cup
    {[name |-> "admin.unregister_server", arguments |-> s] :
        s \in {[id |-> "a"], [id |-> "b"], EmptyDict,
               [admin_token |-> "s3cret", id |-> "a"],
               [admin_token |-> None, id |-> "b"]}}
    \cup
    {[name |-> "admin.list_servers", arguments |-> s] :
        s \in {EmptyDict, [admin_token |-> "s3cret"], [admin_token |-> "wrong"]}}

\* str(url).startswith("http"), on the urls of the entries above.
StartsWithHttp(url) == url \in {"http://h/mcp", "https://h/v2"}

\* tools_result.tools: the tool names the downstream server of an entry advertises.
Advertised(server) ==
    IF Get(server, "type", "stdio") = "stdio"
    THEN (IF Get(server, "command", None) = "srv2" THEN <<"y">>
          ELSE IF Get(server, "command", None) = "srv3" THEN <<"x.y">>
          ELSE <<"x">>)
    ELSE <<"x", "z">>

-----------------------------------------------------------------------------
(* The gateway's state as one record, so that the code run between two      *)
(* awaits composes as a function on it.                                     *)

Gw == [registry_file |-> registry_file, registry_entries |-> registry_entries,
       sessions |-> sessions, stdio_contexts |-> stdio_contexts,
       http_clients |-> http_clients, server_tools |-> server_tools,
       tools |-> tools, tool_map |-> tool_map, opened |-> opened,
       verified |-> verified]

SetGw(g) ==
    /\ registry_file' = g.registry_file
    /\ registry_entries' = g.registry_entries
    /\ sessions' = g.sessions
    /\ stdio_contexts' = g.stdio_contexts
    /\ http_clients' = g.http_clients
    /\ server_tools' = g.server_tools
    /\ tools' = g.tools
    /\ tool_map' = g.tool_map
    /\ opened' = g.opened
    /\ verified' = g.verified

\* A resource: the transport context, the ClientSession or the HTTP client
\* created by the connect of call number conn.
Res(kind, conn) == [kind |-> kind, conn |-> conn]

Open(g, r) == [g EXCEPT !.opened = @ \cup {r}]

Close(g, r) == [g EXCEPT !.opened = @ \ {r}]

_persist_registry(g) ==
    [g EXCEPT !.registry_file = OdValues(g.registry_entries)]

_rebuild_tool_list(g) ==
    [g EXCEPT !.tools = Flatten(OdValues(g.server_tools))]

-----------------------------------------------------------------------------
(* _connect_entry, cut at its awaits.                                       *)

ServerType(server) == Get(server, "type", "stdio")

\* UrlInvalid that accepts every entry, with or without a url.
UrlNeverInvalid(server) == FALSE

\* `not url or not str(url).startswith("http")`
UrlInvalid(server) ==
    LET url == Get(server, "url", None)
    IN  url = None \/ url = "" \/ ~StartsWithHttp(url)

\* The ValueErrors _connect_entry raises before it opens anything.
ConnectRejects(server) ==
    \/ Get(server, "id", None) \in {None, ""}
    \/ ServerType(server) \notin {"stdio", "sse", "streamable-http"}
    \/ ServerType(server) \in {"sse", "streamable-http"} /\ UrlInvalid(server)

\* Up to the await of transport_context.__aenter__(): a streamable-http entry
\* has its HTTP client created and recorded.
ConnectBegin(g, server, conn) ==
    IF ServerType(server) = "streamable-http"
    THEN Open([g EXCEPT !.http_clients = DictSet(@, server.id, conn)], Res("http", conn))
    ELSE g

\* transport_context.__aenter__() returned: the transport is open.
TransportEntered(g, conn) == Open(g, Res("transport", conn))

\* session.__aenter__() returned: the session is open.
SessionEntered(g, conn) == Open(g, Res("session", conn))

NamespacedName(server_id, tool_name) == server_id \o "." \o tool_name

Meta(server, tool_name) ==
    LET base == [server_id |-> server.id, server_type |-> ServerType(server),
                 original_name |-> tool_name]
    IN  IF ServerType(server) \in {"sse", "streamable-http"}
        THEN [x \in {"server_id", "server_type", "original_name", "server_url",
                     "direct_call_allowed"} |->
                 IF x = "server_url" THEN Get(server, "url", None)
                 ELSE IF x = "direct_call_allowed" THEN TRUE ELSE base[x]]
        ELSE [x \in {"server_id", "server_type", "original_name",
                     "direct_call_allowed"} |->
                 IF x = "direct_call_allowed" THEN FALSE ELSE base[x]]

\* The Tool objects built from tools_result.tools; conn tells the objects of one
\* connection from those of another.
Namespaced(server, conn) ==
    LET adv == Advertised(server)
    IN  [i \in 1..Len(adv) |->
            [name |-> NamespacedName(server.id, adv[i]), meta |-> Meta(server, adv[i]),
             conn |-> conn]]

\* session.list_tools() returned: the loop over the tools and the three
\* assignments that end _connect_entry.
ConnectFinish(g, server, conn) ==
    LET ns == Namespaced(server, conn)
        added == {ns[i].name : i \in 1..Len(ns)}
        entry(n) == LET i == CHOOSE j \in 1..Len(ns) : ns[j].name = n
                    IN  [server_id |-> server.id,
                         original_name |-> ns[i].meta["original_name"], conn |-> conn]
    IN  [g EXCEPT
            !.tool_map = [n \in (DOMAIN @) \cup added |->
                            IF n \in added THEN entry(n) ELSE @[n]],
            !.sessions = DictSet(@, server.id, conn),
            !.stdio_contexts = DictSet(@, server.id, conn),
            !.server_tools = OdSet(@, server.id, ns),
            !.verified = @ \cup {server}]

-----------------------------------------------------------------------------
(* _disconnect_entry, cut at its awaits.  DisconnectFrom runs it from the   *)
(* test of stage 1 (sessions), 2 (stdio_contexts), 3 (http_clients) or from *)
(* the synchronous tail, 4, up to the next await: at is the await reached,  *)
(* or "done".                                                               *)

\* DisconnectTail that leaves the routing table as it is.
DisconnectTailKeepsMap(g, server_id) ==
    [g EXCEPT !.server_tools = OdDel(@, server_id)]

DisconnectTail(g, server_id) ==
    [g EXCEPT
        !.server_tools = OdDel(@, server_id),
        !.tool_map = [n \in {m \in DOMAIN @ : @[m].server_id # server_id} |-> @[n]]]

RECURSIVE DisconnectFrom(_, _, _)
DisconnectFrom(g, server_id, stage) ==
    CASE stage = 1 ->
            IF server_id \in DOMAIN g.sessions
            THEN [g |-> Close(g, Res("session", g.sessions[server_id])), at |-> "d_sess"]
            ELSE DisconnectFrom(g, server_id, 2)
      [] stage = 2 ->
            IF server_id \in DOMAIN g.stdio_contexts
            THEN [g |-> Close(g, Res("transport", g.stdio_contexts[server_id])),
                  at |-> "d_ctx"]
            ELSE DisconnectFrom(g, server_id, 3)
      [] stage = 3 ->
            IF server_id \in DOMAIN g.http_clients
            THEN [g |-> Close(g, Res("http", g.http_clients[server_id])), at |-> "d_http"]
            ELSE DisconnectFrom(g, server_id, 4)
      [] OTHER -> [g |-> DisconnectTail(g, server_id), at |-> "done"]

-----------------------------------------------------------------------------
(* Startup: run_server constructs the gateway and awaits connect() before   *)
(* it serves any request.                                                   *)

NoRequest == [name |-> None, arguments |-> EmptyDict]

\* No call returned in the last step.
NoReturn == [task |-> None, req |-> NoRequest, kind |-> "none", status |-> None,
             message |-> None, servers |-> <<>>, cid |-> NoConn, prev |-> NoConn,
             file0 |-> <<>>]

\* The value of file0 of a call that wrote the file itself.
Changed == <<[id |-> "changed by the call"]>>

\* The gateway's model has no client of its own: its requests are inputs.
NoClient == [pc |-> "none"]

\* No argument list is being resolved.
NoResolution == [args |-> <<>>]

\* What the admin calls served so far have answered: the ids whose
\* register_server returned ok, the ids whose unregister_server returned ok,
\* and whether a call began while another was being served.
NoOutcome == [registered |-> {}, unregistered |-> {}, concurrent |-> FALSE]

Outcome(t, L, ret, starting) ==
    LET ok == ret.kind = "json" /\ ret.status = "ok"
        server_id == Get(L.req.arguments, "id", "")
    IN  [registered |->
            IF ok /\ L.req.name = "admin.register_server"
            THEN outcome.registered \cup {server_id} ELSE outcome.registered,
         unregistered |->
            IF ok /\ L.req.name = "admin.unregister_server"
            THEN outcome.unregistered \cup {server_id} ELSE outcome.unregistered,
         concurrent |->
            outcome.concurrent \/ (starting /\ \E u \in Tasks \ {t} : pc[u] # "idle")]

Init ==
    /\ registry_file \in InitialFiles
    /\ registry_entries = <<>>
    /\ sessions = EmptyDict
    /\ stdio_contexts = EmptyDict
    /\ http_clients = EmptyDict
    /\ server_tools = <<>>
    /\ tools = <<>>
    /\ tool_map = EmptyDict
    /\ opened = {}
    /\ verified = {}
    /\ secret \in Secrets
    /\ phase = "starting"
    /\ idx = 0
    /\ pc = [t \in Tasks |-> "idle"]
    /\ req = [t \in Tasks |-> NoRequest]
    /\ cid = [t \in Tasks |-> NoConn]
    /\ cont = [t \in Tasks |-> "none"]
    /\ calls = 0
    /\ returned = NoReturn
    /\ file0 = [t \in Tasks |-> <<>>]
    /\ prev = [t \in Tasks |-> NoConn]
    /\ outcome = NoOutcome
    /\ attempted = {}
    /\ client = NoClient
    /\ resolution = NoResolution

taskvars == <<pc, req, cid, cont, calls, returned, file0, prev, outcome>>

\* connect(), up to its loop: the file is loaded and the maps are reset.
connect_load ==
    /\ phase = "starting"
    /\ IF registry_file = <<>>
       THEN /\ phase' = "failed"
            /\ UNCHANGED <<gwvars, idx>>
       ELSE /\ phase' = "loading"
            /\ idx' = 1
            /\ SetGw([Gw EXCEPT
                    !.registry_entries =
                        [i \in 1..Len(registry_file) |->
                            [k |-> registry_file[i].id, v |-> registry_file[i]]],
                    !.tools = <<>>, !.tool_map = EmptyDict, !.sessions = EmptyDict,
                    !.stdio_contexts = EmptyDict, !.http_clients = EmptyDict,
                    !.server_tools = <<>>])
    /\ UNCHANGED <<secret, taskvars, attempted, client, resolution>>

\* The connection made for entry i of the bulk connect.
BulkConn(i) == 0 - i

\* _connect_entry run to the await named by upto, where it fails
\* ("transport", "enter", "init", "list"), or to its end ("ok").
ConnectUpTo(g, server, conn, upto) ==
    LET g1 == ConnectBegin(g, server, conn)
        g2 == TransportEntered(g1, conn)
        g3 == SessionEntered(g2, conn)
    IN  CASE upto = "transport" -> g1
          [] upto = "enter" -> g2
          [] upto \in {"init", "list"} -> g3
          [] OTHER -> ConnectFinish(g3, server, conn)

\* connect_entry with a loop that passes over an entry whose connect fails.
connect_entry_skipping ==
    /\ phase = "loading"
    /\ LET server == registry_file[idx]
           last == idx = Len(registry_file)
       IN  \E upto \in {"transport", "enter", "init", "list", "ok"} :
              /\ ConnectRejects(server) => upto = "transport"
              /\ LET g == IF ConnectRejects(server) THEN Gw
                          ELSE ConnectUpTo(Gw, server, BulkConn(idx), upto)
                 IN  /\ SetGw(IF last THEN _rebuild_tool_list(g) ELSE g)
                     /\ phase' = IF last THEN "serving" ELSE phase
                     /\ idx' = idx + 1
    /\ UNCHANGED <<secret, taskvars, attempted, client, resolution>>

\* One turn of the loop of connect(): the entries are connected one after
\* another; the first failure ends run_server.
connect_entry ==
    /\ phase = "loading"
    /\ LET server == registry_file[idx]
       IN  IF ConnectRejects(server)
           THEN /\ phase' = "failed"
                /\ UNCHANGED <<gwvars, idx>>
           ELSE \E upto \in {"transport", "enter", "init", "list", "ok"} :
                   LET g == ConnectUpTo(Gw, server, BulkConn(idx), upto)
                   IN  IF upto # "ok"
                       THEN SetGw(g) /\ phase' = "failed" /\ idx' = idx
                       ELSE IF idx = Len(registry_file)
                       THEN SetGw(_rebuild_tool_list(g)) /\ phase' = "serving"
                            /\ idx' = idx + 1
                       ELSE SetGw(g) /\ phase' = phase /\ idx' = idx + 1
    /\ UNCHANGED <<secret, taskvars, attempted, client, resolution>>

-----------------------------------------------------------------------------
(* The request handler call_tool and the admin operations it dispatches to. *)

\* `if arguments.get("admin_token") is None`: the key is dropped.
StripNullToken(arguments) ==
    IF Get(arguments, "admin_token", None) = None
    THEN [x \in (DOMAIN arguments) \ {"admin_token"} |-> arguments[x]]
    ELSE arguments

\* _is_admin_ok that lets a call without a token pass.
IsAdminOkTokenOptional(arguments) ==
    IF secret = None \/ secret = ""
    THEN TRUE
    ELSE Get(arguments, "admin_token", secret) = secret

\* _is_admin_ok that takes an empty MCP_GATEWAY_ADMIN_TOKEN for a secret.
IsAdminOkEmptyIsSecret(arguments) ==
    IF secret = None
    THEN TRUE
    ELSE Get(arguments, "admin_token", None) = secret

_is_admin_ok(arguments) ==
    IF secret = None \/ secret = ""
    THEN TRUE
    ELSE Get(arguments, "admin_token", None) = secret

\* The connections the state still names.
ConnsInUse ==
    {r.conn : r \in opened}
    \cup {sessions[i] : i \in DOMAIN sessions}
    \cup {stdio_contexts[i] : i \in DOMAIN stdio_contexts}
    \cup {http_clients[i] : i \in DOMAIN http_clients}
    \cup {tool_map[n].conn : n \in DOMAIN tool_map}
    \cup {tools[i].conn : i \in 1..Len(tools)}
    \cup {cid[t] : t \in Tasks} \cup {prev[t] : t \in Tasks}

\* The name of the connection a new call creates: one no object bears.
FreshConn == CHOOSE n \in 1..(2 * MaxCalls + 2) :
                /\ n \notin ConnsInUse
                /\ \A m \in 1..(n - 1) : m \in ConnsInUse

\* What a task holds during a call: its request and the history of the call.
Frame(t) == [req |-> req[t], cid |-> cid[t], prev |-> prev[t], file0 |-> file0[t]]

\* The frame of a call that begins: request q as the handler passes it on.
NewFrame(q) ==
    [req |-> [q EXCEPT !.arguments = StripNullToken(@)], cid |-> FreshConn,
     prev |-> Get(sessions, Get(q.arguments, "id", None), NoConn),
     file0 |-> registry_file]

\* What a call returns: kind "json" (a {status, message} object), "list" (the
\* registry), "unauthorized", "raised" (the handler's text of an exception), or
\* "text" (what MCPGateway.call_tool returns).
Ret(kind, status, message, servers) ==
    [kind |-> kind, status |-> status, message |-> message, servers |-> servers]

Suspended == Ret("none", None, None, <<>>)

\* A step of task t, whose call has frame L, that leaves the gateway in g and
\* the task at the await newpc, or returns ret.  starting: the step begins the call.
Step(t, g, L, newpc, newcont, ret, starting) ==
    LET written == g.registry_file # registry_file
        own == IF written THEN Changed ELSE L.file0
        back == ret.kind # "none"
    IN  /\ SetGw(g)
        /\ pc' = [pc EXCEPT ![t] = IF back THEN "idle" ELSE newpc]
        /\ cont' = [cont EXCEPT ![t] = IF back THEN "none" ELSE newcont]
        /\ req' = [req EXCEPT ![t] = IF back THEN NoRequest ELSE L.req]
        /\ cid' = [cid EXCEPT ![t] = IF back THEN NoConn ELSE L.cid]
        /\ prev' = [prev EXCEPT ![t] = IF back THEN NoConn ELSE L.prev]
        /\ file0' = [file0 EXCEPT ![t] = IF back THEN <<>> ELSE own]
        /\ returned' = IF back
                       THEN [task |-> t, req |-> L.req, kind |-> ret.kind,
                             status |-> ret.status, message |-> ret.message,
                             servers |-> ret.servers,
                             cid |-> L.cid, prev |-> L.prev, file0 |-> own]
                       ELSE NoReturn
        /\ calls' = IF starting THEN calls + 1 ELSE calls
        /\ outcome' = Outcome(t, L, ret, starting)
        /\ UNCHANGED <<secret, phase, idx, attempted, client, resolution>>

\* register_server, line 232: the entry is recorded before it is connected.
RecordEntry(g, server) ==
    [g EXCEPT !.registry_entries = OdSet(@, server.id, server)]

\* register_server, lines 236-237.
FinishRegister(g) == _persist_registry(_rebuild_tool_list(g))

\* FinishUnregister without its _persist_registry.
FinishUnregisterNoPersist(g) == _rebuild_tool_list(g)

\* FinishUnregister without its _rebuild_tool_list.
FinishUnregisterNoRebuild(g) == _persist_registry(g)

\* unregister_server, lines 255-256.
FinishUnregister(g) == _persist_registry(_rebuild_tool_list(g))

\* A request is served by a task of its own: the tasks being alike, it is the
\* first idle one.
CanBegin(t) ==
    /\ phase = "serving"
    /\ calls < MaxCalls
    /\ pc[t] = "idle"
    /\ t = "t1" \/ pc["t1"] # "idle"

\* What follows a _disconnect_entry that has run to r.at: the await it
\* reached, or the rest of its caller k.
Proceed(t, r, L, k, starting) ==
    IF r.at # "done"
    THEN Step(t, r.g, L, r.at, k, Suspended, starting)
    ELSE CASE k = "register" ->
                \* line 232, and the await of line 235
                Step(t, RecordEntry(r.g, L.req.arguments), L, "c_start", "none",
                     Suspended, starting)
           [] k = "rollback" ->
                \* line 246
                Step(t, r.g, L, "idle", "none", Ret("json", "error", "str(e)", <<>>),
                     starting)
           [] OTHER ->
                \* unregister_server, lines 255-257
                Step(t, FinishUnregister(r.g), L, "idle", "none",
                     Ret("json", "ok", "Unregistered", <<>>), starting)

\* The except branch of register_server, lines 240-246.
Rollback(t, g) ==
    LET server_id == req[t].arguments.id
        g1 == [g EXCEPT !.registry_entries = OdDel(@, server_id)]
    IN  Proceed(t, DisconnectFrom(g1, server_id, 1), Frame(t), "rollback", FALSE)

\* Raise without the handler's except branch: the exception leaves call_tool.
RaisePropagates(t, g) ==
    Step(t, g, Frame(t), "idle", "none", Ret("exception", None, None, <<>>), FALSE)

\* An exception leaves the admin operation: the handler's except branch
\* (lines 387-389) returns it as an error text.
Raise(t, g) ==
    Step(t, g, Frame(t), "idle", "none", Ret("raised", None, "Error: str(e)", <<>>), FALSE)

\* An admin call whose token fails the gate.
unauthorized_call(t, q) ==
    /\ CanBegin(t)
    /\ ~_is_admin_ok(StripNullToken(q.arguments))
    /\ Step(t, Gw, NewFrame(q), "idle", "none", Ret("unauthorized", None, "Error: unauthorized", <<>>), TRUE)

\* admin.list_servers: list_registry.
list_registry_call(t, q) ==
    /\ CanBegin(t)
    /\ q.name = "admin.list_servers"
    /\ _is_admin_ok(StripNullToken(q.arguments))
    /\ Step(t, Gw, NewFrame(q), "idle", "none",
            Ret("list", None, None, OdValues(registry_entries)), TRUE)

\* register_server without the test of lines 225-226: the entry is recorded and
\* connected whatever its id.
register_server_unchecked(t, q) ==
    /\ CanBegin(t)
    /\ q.name = "admin.register_server"
    /\ _is_admin_ok(StripNullToken(q.arguments))
    /\ LET L == NewFrame(q)
           server_id == Get(L.req.arguments, "id", None)
       IN  IF OdHas(registry_entries, server_id)
           THEN Proceed(t, DisconnectFrom(Gw, server_id, 1), L, "register", TRUE)
           ELSE Proceed(t, [g |-> Gw, at |-> "done"], L, "register", TRUE)

\* admin.register_server: register_server up to its first await.
register_server_call(t, q) ==
    /\ CanBegin(t)
    /\ q.name = "admin.register_server"
    /\ _is_admin_ok(StripNullToken(q.arguments))
    /\ LET L == NewFrame(q)
           server_id == Get(L.req.arguments, "id", None)
       IN  IF server_id = None \/ server_id = ""
           THEN Step(t, Gw, L, "idle", "none",
                     Ret("json", "error", "Missing required field 'id'", <<>>), TRUE)
           ELSE IF OdHas(registry_entries, server_id)
           THEN Proceed(t, DisconnectFrom(Gw, server_id, 1), L, "register", TRUE)
           ELSE Proceed(t, [g |-> Gw, at |-> "done"], L, "register", TRUE)

\* unregister_server without the test of line 250.
unregister_server_unchecked(t) ==
    /\ CanBegin(t)
    /\ \E q \in Requests :
        /\ q.name = "admin.unregister_server"
        /\ _is_admin_ok(StripNullToken(q.arguments))
        /\ LET L == NewFrame(q)
               server_id == Get(L.req.arguments, "id", "")
           IN  Proceed(t,
                       DisconnectFrom([Gw EXCEPT !.registry_entries =
                                                    OdDel(@, server_id)],
                                      server_id, 1),
                       L, "unregister", TRUE)

\* admin.unregister_server: unregister_server up to its first await.
unregister_server_call(t, q) ==
    /\ CanBegin(t)
    /\ q.name = "admin.unregister_server"
    /\ _is_admin_ok(StripNullToken(q.arguments))
    /\ LET L == NewFrame(q)
           server_id == Get(L.req.arguments, "id", "")
       IN  IF ~OdHas(registry_entries, server_id)
           THEN Step(t, Gw, L, "idle", "none",
                     Ret("json", "error", "Server not found", <<>>), TRUE)
           ELSE Proceed(t,
                        DisconnectFrom([Gw EXCEPT !.registry_entries =
                                                     OdDel(@, server_id)],
                                       server_id, 1),
                        L, "unregister", TRUE)

\* The handler serves one of the requests above.
unauthorized(t) == \E q \in Requests : unauthorized_call(t, q)

list_registry(t) == \E q \in Requests : list_registry_call(t, q)

register_server(t) == \E q \in Requests : register_server_call(t, q)

unregister_server(t) == \E q \in Requests : unregister_server_call(t, q)

\* _disconnect_entry resumes after `await self.sessions[server_id].__aexit__`.
disconnect_session_closed(t) ==
    /\ pc[t] = "d_sess"
    /\ LET server_id == req[t].arguments.id
       IN  IF server_id \in DOMAIN sessions
           THEN Proceed(t, DisconnectFrom([Gw EXCEPT !.sessions = DictDel(@, server_id)],
                                          server_id, 2),
                        Frame(t), cont[t], FALSE)
           ELSE Raise(t, Gw)

\* _disconnect_entry resumes after `await self.stdio_contexts[server_id].__aexit__`.
disconnect_context_closed(t) ==
    /\ pc[t] = "d_ctx"
    /\ LET server_id == req[t].arguments.id
       IN  IF server_id \in DOMAIN stdio_contexts
           THEN Proceed(t, DisconnectFrom([Gw EXCEPT !.stdio_contexts =
                                                        DictDel(@, server_id)],
                                          server_id, 3),
                        Frame(t), cont[t], FALSE)
           ELSE Raise(t, Gw)

\* _disconnect_entry resumes after `await self.http_clients[server_id].aclose()`.
disconnect_http_closed(t) ==
    /\ pc[t] = "d_http"
    /\ LET server_id == req[t].arguments.id
       IN  IF server_id \in DOMAIN http_clients
           THEN Proceed(t, DisconnectFrom([Gw EXCEPT !.http_clients =
                                                        DictDel(@, server_id)],
                                          server_id, 4),
                        Frame(t), cont[t], FALSE)
           ELSE Raise(t, Gw)

\* _connect_entry starts (the coroutine given to wait_for): it validates the
\* entry and awaits the transport.
connect_start(t) ==
    /\ pc[t] = "c_start"
    /\ IF ConnectRejects(req[t].arguments)
       THEN Rollback(t, Gw)
       ELSE Step(t, ConnectBegin(Gw, req[t].arguments, cid[t]), Frame(t),
                 "c_transport", "none", Suspended, FALSE)

\* transport_context.__aenter__() returned; session.__aenter__() is awaited.
connect_transport_entered(t) ==
    /\ pc[t] = "c_transport"
    /\ Step(t, TransportEntered(Gw, cid[t]), Frame(t), "c_enter", "none", Suspended, FALSE)

\* session.__aenter__() returned; session.initialize() is awaited.
connect_session_entered(t) ==
    /\ pc[t] = "c_enter"
    /\ Step(t, SessionEntered(Gw, cid[t]), Frame(t), "c_init", "none", Suspended, FALSE)

\* session.initialize() returned; session.list_tools() is awaited.
connect_initialized(t) ==
    /\ pc[t] = "c_init"
    /\ Step(t, Gw, Frame(t), "c_list", "none", Suspended, FALSE)

\* session.list_tools() returned: _connect_entry runs to its end.
connect_tools_listed(t) ==
    /\ pc[t] = "c_list"
    /\ Step(t, ConnectFinish(Gw, req[t].arguments, cid[t]), Frame(t), "c_done", "none",
            Suspended, FALSE)

\* The awaited operation of _connect_entry raises or times out, or the 20 s
\* bound of register_server cancels it.
connect_failed(t) ==
    /\ pc[t] \in {"c_transport", "c_enter", "c_init", "c_list"}
    /\ Rollback(t, Gw)

\* register_server resumes after the await of line 235: lines 236-239.
register_finish(t) ==
    /\ pc[t] = "c_done"
    /\ Step(t, FinishRegister(Gw), Frame(t), "idle", "none",
            Ret("json", "ok", "Registered", <<>>), FALSE)

TaskNext(t) ==
    \/ unauthorized(t)
    \/ list_registry(t)
    \/ register_server(t)
    \/ unregister_server(t)
    \/ disconnect_session_closed(t)
    \/ disconnect_context_closed(t)
    \/ disconnect_http_closed(t)
    \/ connect_start(t)
    \/ connect_transport_entered(t)
    \/ connect_session_entered(t)
    \/ connect_initialized(t)
    \/ connect_tools_listed(t)
    \/ connect_failed(t)
    \/ register_finish(t)

Next ==
    \/ connect_load
    \/ connect_entry
    \/ \E t \in Tasks : TaskNext(t)

Spec == Init /\ [][Next]_vars

\* No call is being served.
Quiescent == \A t \in Tasks : pc[t] = "idle"

\* run_server, lines 400-405: app.run has ended and the finally branch calls
\* MCPGateway.close.
shutdown ==
    /\ phase = "serving"
    /\ Quiescent
    /\ phase' = "closing"
    /\ UNCHANGED <<gwvars, secret, idx, taskvars, attempted, client, resolution>>

\* The resources the dict holds, as close snapshots them: list(d.values()).
Held(kind, d) == {Res(kind, d[i]) : i \in DOMAIN d}

\* The loop close is in: sessions (276-280), then transport contexts
\* (281-285), then HTTP clients (286-290); what it has yet to close there.
CloseLoop ==
    LET s == Held("session", sessions) \ attempted
        c == Held("transport", stdio_contexts) \ attempted
        h == Held("http", http_clients) \ attempted
    IN  IF s # {} THEN s ELSE IF c # {} THEN c ELSE h

\* One turn of a loop of close: the close of r is awaited; it closes r, or
\* raises and `except Exception: pass` goes on to the next.
close_attempt ==
    /\ phase = "closing"
    /\ \E r \in CloseLoop, raises \in BOOLEAN :
        /\ attempted' = attempted \cup {r}
        /\ opened' = IF raises THEN opened ELSE opened \ {r}
    /\ UNCHANGED <<registry_file, registry_entries, sessions, stdio_contexts,
                   http_clients, server_tools, tools, tool_map, verified,
                   secret, phase, idx, taskvars, client, resolution>>

\* The three loops are over: close returns.
close_return ==
    /\ phase = "closing"
    /\ CloseLoop = {}
    /\ phase' = "closed"
    /\ UNCHANGED <<gwvars, secret, idx, taskvars, attempted, client, resolution>>

\* The gateway from its start to the end of its shutdown.
CloseNext ==
    \/ Next
    \/ shutdown
    \/ close_attempt
    \/ close_return

CloseSpec == Init /\ [][CloseNext]_vars

\* What the event loop guarantees of a suspended register_server: a task that
\* can run is run (connect_start, register_finish), and an await of
\* _connect_entry ends, by its result or by the timeouts of lines 54-65 and
\* 235 (connect_failed at the latest).  The awaits of _disconnect_entry
\* (lines 172, 178, 184) have no timeout: they end when the peer lets them.
Fairness ==
    \A t \in Tasks :
        /\ WF_vars(connect_start(t))
        /\ WF_vars(connect_failed(t) \/ connect_tools_listed(t))
        /\ WF_vars(register_finish(t))

LiveSpec == Init /\ [][Next]_vars /\ Fairness

\* The admin operations run one at a time: a request arrives only when no other
\* is being served, so one task serves them all.
SeqNext ==
    \/ connect_load
    \/ connect_entry
    \/ TaskNext("t1")

SeqSpec == Init /\ [][SeqNext]_vars

\* Admin calls that differ in their admin_token only: absent, null, empty, set.
TokenRequests ==
    {[name |-> "admin.register_server", arguments |-> s] :
        s \in {SrvB3, WithToken(SrvB3, None), WithToken(SrvB3, ""),
               WithToken(SrvA2, "s3cret")}}
    \cup
    {[name |-> "admin.unregister_server", arguments |-> s] :
        s \in {[id |-> "b"], [admin_token |-> None, id |-> "b"],
               [admin_token |-> "", id |-> "b"], [admin_token |-> "s3cret", id |-> "a"]}}
    \cup
    {[name |-> "admin.list_servers", arguments |-> s] :
        s \in {EmptyDict, [admin_token |-> None], [admin_token |-> ""]}}

\* The handler serves one of these calls.
TokenCall(t) ==
    \E q \in TokenRequests :
        \/ unauthorized_call(t, q)
        \/ list_registry_call(t, q)
        \/ register_server_call(t, q)
        \/ unregister_server_call(t, q)

TokenTaskNext(t) ==
    \/ TokenCall(t)
    \/ disconnect_session_closed(t)
    \/ disconnect_context_closed(t)
    \/ disconnect_http_closed(t)
    \/ connect_start(t)
    \/ connect_transport_entered(t)
    \/ connect_session_entered(t)
    \/ connect_initialized(t)
    \/ connect_tools_listed(t)
    \/ connect_failed(t)
    \/ register_finish(t)

TokenNext ==
    \/ connect_load
    \/ connect_entry
    \/ \E t \in Tasks : TokenTaskNext(t)

TokenSpec == Init /\ [][TokenNext]_vars

\* The tool calls a client sends: a tool of each initial server and a name no
\* server bears.
ToolNames == {"x", "y", "z", "x.y"}

ToolCalls == {[name |-> n, arguments |-> EmptyDict] : n \in {"a.x", "b.z", "c.x"}}

\* The routing lookup with a default: a name the table lacks goes to server "a".
LookupWithDefault(name) ==
    IF name \in DOMAIN tool_map THEN tool_map[name].server_id ELSE "a"

\* The routing lookup of call_tool, lines 264-267: the server of the name, None
\* for a name that is not in tool_map.
Lookup(name) ==
    IF name \in DOMAIN tool_map THEN tool_map[name].server_id ELSE None

\* call_tool of the handler for a name outside the admin surface (line 386),
\* MCPGateway.call_tool up to its await: the routing lookup (lines 264-267),
\* the session lookup (lines 268-270) and the call sent on the session
\* (line 272).  prev holds the session the call was sent on.
gateway_call_tool_call(t, q) ==
    /\ CanBegin(t)
    /\ LET L == [NewFrame(q) EXCEPT !.cid = NoConn]
           server_id == Lookup(q.name)
       IN  IF server_id = None
           THEN Step(t, Gw, L, "idle", "none",
                     Ret("text", None, "Error: Unknown tool", <<>>), TRUE)
           ELSE IF server_id \notin DOMAIN sessions
           THEN Step(t, Gw, L, "idle", "none",
                     Ret("text", None, "Error: No session for server", <<>>), TRUE)
           ELSE Step(t, Gw, [L EXCEPT !.prev = sessions[server_id]],
                     "t_call", "none", Suspended, TRUE)

\* The handler serves one of the tool calls above.
gateway_call_tool(t) == \E q \in ToolCalls : gateway_call_tool_call(t, q)

\* `await session.call_tool(...)` returns the downstream's result: line 273.
\* content: the texts of the downstream's result, of which `or` replaces an
\* empty list by one empty text.
call_tool_result(t) ==
    /\ pc[t] = "t_call"
    /\ Res("session", prev[t]) \in opened
    /\ \E content \in {<<>>, <<"result">>} :
        Step(t, Gw, Frame(t), "idle", "none",
             Ret("text", None, IF content = <<>> THEN "" ELSE content[1], <<>>), FALSE)

\* `await session.call_tool(...)` raises: the downstream failed, or the session
\* was closed while the call was in flight.
call_tool_failed(t) ==
    /\ pc[t] = "t_call"
    /\ Raise(t, Gw)

\* The gateway serving admin operations and tool calls side by side.
CallTaskNext(t) ==
    \/ TaskNext(t)
    \/ gateway_call_tool(t)
    \/ call_tool_result(t)
    \/ call_tool_failed(t)

CallNext ==
    \/ connect_load
    \/ connect_entry
    \/ \E t \in Tasks : CallTaskNext(t)

CallSpec == Init /\ [][CallNext]_vars

\* Registers and unregisters of servers whose ids and tool names may contain
\* the separator ".": server "a" of SrvA3 advertises "x.y", server "a.x" "y".
FrameFiles == {<<SrvA3>>, <<SrvA1, SrvB1>>, <<SrvAX>>}

FrameRequests ==
    {[name |-> "admin.register_server", arguments |-> s] :
        s \in {SrvAX, SrvA3, SrvNoId, SrvEmptyId}}
    \cup
    {[name |-> "admin.unregister_server", arguments |-> s] :
        s \in {[id |-> "a"], [id |-> "a.x"], [id |-> "b"]}}
    \cup
    {[name |-> "admin.list_servers", arguments |-> s] :
        s \in {EmptyDict, [admin_token |-> "wrong"]}}

FrameCall(t) ==
    \E q \in FrameRequests :
        \/ unauthorized_call(t, q)
        \/ list_registry_call(t, q)
        \/ register_server_call(t, q)
        \/ unregister_server_call(t, q)

FrameTaskNext(t) ==
    \/ FrameCall(t)
    \/ disconnect_session_closed(t)
    \/ disconnect_context_closed(t)
    \/ disconnect_http_closed(t)
    \/ connect_start(t)
    \/ connect_transport_entered(t)
    \/ connect_session_entered(t)
    \/ connect_initialized(t)
    \/ connect_tools_listed(t)
    \/ connect_failed(t)
    \/ register_finish(t)

FrameInit ==
    /\ registry_file \in FrameFiles
    /\ registry_entries = <<>>
    /\ sessions = EmptyDict
    /\ stdio_contexts = EmptyDict
    /\ http_clients = EmptyDict
    /\ server_tools = <<>>
    /\ tools = <<>>
    /\ tool_map = EmptyDict
    /\ opened = {}
    /\ verified = {}
    /\ secret \in Secrets
    /\ phase = "starting"
    /\ idx = 0
    /\ pc = [t \in Tasks |-> "idle"]
    /\ req = [t \in Tasks |-> NoRequest]
    /\ cid = [t \in Tasks |-> NoConn]
    /\ cont = [t \in Tasks |-> "none"]
    /\ calls = 0
    /\ returned = NoReturn
    /\ file0 = [t \in Tasks |-> <<>>]
    /\ prev = [t \in Tasks |-> NoConn]
    /\ outcome = NoOutcome
    /\ attempted = {}
    /\ client = NoClient
    /\ resolution = NoResolution

FrameNext ==
    \/ connect_load
    \/ connect_entry
    \/ \E t \in Tasks : FrameTaskNext(t)

FrameSpec == FrameInit /\ [][FrameNext]_vars

\* A server whose id is the prefix of the admin surface.
SrvAdmin == [id |-> "admin", command |-> "srv1"]

DispatchFiles == {<<SrvAdmin>>, <<SrvAdmin, SrvB1>>, <<SrvA1>>}

\* Calls by name: the admin operations, the catalog name of a tool of server
\* "admin", the catalog name of a tool of server "a".
DispatchCalls ==
    {[name |-> "admin.register_server", arguments |-> s] : s \in {SrvAdmin, SrvA2}}
    \cup
    {[name |-> "admin.unregister_server", arguments |-> s] :
        s \in {[id |-> "admin"], [id |-> "b"]}}
    \cup
    {[name |-> "admin.list_servers", arguments |-> s] :
        s \in {EmptyDict, [admin_token |-> "wrong"]}}
    \cup
    {[name |-> n, arguments |-> EmptyDict] : n \in {"admin.x", "a.x", "a.y"}}

AdminNames == {"admin.list_servers", "admin.register_server", "admin.unregister_server"}

\* name.startswith(prefix)
StartsWith(name, prefix) ==
    Len(name) >= Len(prefix) /\ SubSeq(name, 1, Len(prefix)) = prefix

\* The last line of the admin branch, line 384: no operation bears the name.
unknown_admin_tool(t, q) ==
    /\ CanBegin(t)
    /\ q.name \notin AdminNames
    /\ _is_admin_ok(StripNullToken(q.arguments))
    /\ Step(t, Gw, NewFrame(q), "idle", "none",
            Ret("text", None, "Error: unknown admin tool", <<>>), TRUE)

\* The branch of line 369: every name that starts with "admin.".
admin_surface(t, q) ==
    /\ StartsWith(q.name, "admin.")
    /\ \/ unauthorized_call(t, q)
       \/ list_registry_call(t, q)
       \/ register_server_call(t, q)
       \/ unregister_server_call(t, q)
       \/ unknown_admin_tool(t, q)

\* Line 386: every other name goes to MCPGateway.call_tool.
downstream(t, q) ==
    /\ ~StartsWith(q.name, "admin.")
    /\ gateway_call_tool_call(t, q)

DispatchTaskNext(t) ==
    \/ \E q \in DispatchCalls : admin_surface(t, q)
    \/ \E q \in DispatchCalls : downstream(t, q)
    \/ call_tool_result(t)
    \/ call_tool_failed(t)
    \/ disconnect_session_closed(t)
    \/ disconnect_context_closed(t)
    \/ disconnect_http_closed(t)
    \/ connect_start(t)
    \/ connect_transport_entered(t)
    \/ connect_session_entered(t)
    \/ connect_initialized(t)
    \/ connect_tools_listed(t)
    \/ connect_failed(t)
    \/ register_finish(t)

DispatchInit ==
    /\ registry_file \in DispatchFiles
    /\ registry_entries = <<>>
    /\ sessions = EmptyDict
    /\ stdio_contexts = EmptyDict
    /\ http_clients = EmptyDict
    /\ server_tools = <<>>
    /\ tools = <<>>
    /\ tool_map = EmptyDict
    /\ opened = {}
    /\ verified = {}
    /\ secret \in Secrets
    /\ phase = "starting"
    /\ idx = 0
    /\ pc = [t \in Tasks |-> "idle"]
    /\ req = [t \in Tasks |-> NoRequest]
    /\ cid = [t \in Tasks |-> NoConn]
    /\ cont = [t \in Tasks |-> "none"]
    /\ calls = 0
    /\ returned = NoReturn
    /\ file0 = [t \in Tasks |-> <<>>]
    /\ prev = [t \in Tasks |-> NoConn]
    /\ outcome = NoOutcome
    /\ attempted = {}
    /\ client = NoClient
    /\ resolution = NoResolution

DispatchNext ==
    \/ connect_load
    \/ connect_entry
    \/ \E t \in Tasks : DispatchTaskNext(t)

DispatchSpec == DispatchInit /\ [][DispatchNext]_vars

\* The bulk connect of run_server alone, on registry files whose ids and
\* advertised tool names may contain the separator ".": one or two entries
\* with distinct ids.
BulkEntries == {SrvA1, SrvA2, SrvA3, SrvAX, SrvB1, SrvB2, SrvB3}

BulkFiles ==
    {<<e>> : e \in BulkEntries}
    \cup {<<p[1], p[2]>> : p \in {q \in BulkEntries \X BulkEntries : q[1].id # q[2].id}}

BulkInit ==
    /\ registry_file \in BulkFiles
    /\ registry_entries = <<>>
    /\ sessions = EmptyDict
    /\ stdio_contexts = EmptyDict
    /\ http_clients = EmptyDict
    /\ server_tools = <<>>
    /\ tools = <<>>
    /\ tool_map = EmptyDict
    /\ opened = {}
    /\ verified = {}
    /\ secret \in Secrets
    /\ phase = "starting"
    /\ idx = 0
    /\ pc = [t \in Tasks |-> "idle"]
    /\ req = [t \in Tasks |-> NoRequest]
    /\ cid = [t \in Tasks |-> NoConn]
    /\ cont = [t \in Tasks |-> "none"]
    /\ calls = 0
    /\ returned = NoReturn
    /\ file0 = [t \in Tasks |-> <<>>]
    /\ prev = [t \in Tasks |-> NoConn]
    /\ outcome = NoOutcome
    /\ attempted = {}
    /\ client = NoClient
    /\ resolution = NoResolution

BulkNext ==
    \/ connect_load
    \/ connect_entry

BulkSpec == BulkInit /\ [][BulkNext]_vars

-----------------------------------------------------------------------------
(* What the claims speak of.                                                *)

-----------------------------------------------------------------------------
(* The client: MCPClient of src/mcp_client/client.py.  Its calls come one   *)
(* after the other, from the loop of chat.                                  *)

\* The number of tool calls the client makes in one behaviour.
MaxClientCalls == 2

ClientServers == {"b", "c"}

\* The tools of the catalog the client has read, and the name of no tool.
ClientTools == {"b.x", "b.z", "c.x"}

ClientNames == ClientTools \cup {"q"}

\* tool_map of the client: the pair (server_id, original_name) of a name.
ClientServerOf(name) == IF name = "c.x" THEN "c" ELSE "b"

\* The metadata a tool may carry: each of the three keys the routing reads
\* may be missing.
DirectAllowedParts ==
    {EmptyDict, "direct_call_allowed" :> FALSE, "direct_call_allowed" :> TRUE}

ServerTypeParts ==
    {EmptyDict} \cup {"server_type" :> ty : ty \in {"stdio", "sse", "streamable-http"}}

ServerUrlParts == {EmptyDict, "server_url" :> "", "server_url" :> "http://h/mcp"}

Metas == {a @@ b @@ c : a \in DirectAllowedParts, b \in ServerTypeParts,
                        c \in ServerUrlParts}

\* The metadata of the tools of c: a streamable-http server open to direct calls.
MetaC == "direct_call_allowed" :> TRUE @@ "server_type" :> "streamable-http"
         @@ "server_url" :> "https://h/v2"

\* The condition of lines 200 and 215, which takes the type for granted.
DirectCallAnyType(meta) ==
    /\ Get(meta, "direct_call_allowed", FALSE) = TRUE
    /\ Get(meta, "server_url", "") # ""

\* The condition of lines 200 and 215: meta.get("direct_call_allowed") and
\* meta.get("server_type") in {"sse", "streamable-http"} and
\* meta.get("server_url"), a missing key and an empty url being false.
DirectCall(meta) ==
    /\ Get(meta, "direct_call_allowed", FALSE) = TRUE
    /\ Get(meta, "server_type", None) \in {"sse", "streamable-http"}
    /\ Get(meta, "server_url", "") # ""

NoCall == [name |-> None, server_id |-> None, conn |-> NoConn]

\* The client after connect_to_server (mode "single": self.session),
\* after connect_to_registry (mode "registry": self.sessions), or not
\* connected (mode "none"); mb is the metadata of the tools of b.
ClientStart(mode, mb) ==
    [pc |-> "idle", mode |-> mode,
     session |-> mode = "single",
     sessions |-> IF mode = "registry" THEN ClientServers ELSE {},
     tool_map |-> IF mode = "none" THEN {} ELSE ClientTools,
     tool_meta |-> IF mode = "none" THEN EmptyDict
                   ELSE [n \in ClientTools |->
                           (IF ClientServerOf(n) = "b" THEN mb ELSE MetaC)
                           @@ "server_id" :> ClientServerOf(n)],
     direct_sessions |-> EmptyDict, direct_contexts |-> EmptyDict,
     direct_http_clients |-> EmptyDict,
     opened |-> {}, created |-> {}, attempted |-> {},
     cur |-> NoCall, route |-> "none", result |-> "none", ncalls |-> 0]

\* The gateway's variables, which the client's steps leave alone.
gwallvars == <<gwvars, secret, phase, idx, taskvars, attempted, resolution>>

ClientInit ==
    /\ registry_file = <<>>
    /\ registry_entries = <<>>
    /\ sessions = EmptyDict
    /\ stdio_contexts = EmptyDict
    /\ http_clients = EmptyDict
    /\ server_tools = <<>>
    /\ tools = <<>>
    /\ tool_map = EmptyDict
    /\ opened = {}
    /\ verified = {}
    /\ secret = None
    /\ phase = "starting"
    /\ idx = 0
    /\ pc = [t \in Tasks |-> "idle"]
    /\ req = [t \in Tasks |-> NoRequest]
    /\ cid = [t \in Tasks |-> NoConn]
    /\ cont = [t \in Tasks |-> "none"]
    /\ calls = 0
    /\ returned = NoReturn
    /\ file0 = [t \in Tasks |-> <<>>]
    /\ prev = [t \in Tasks |-> NoConn]
    /\ outcome = NoOutcome
    /\ attempted = {}
    /\ client \in {ClientStart(mode, mb) :
                      mode \in {"single", "registry", "none"}, mb \in Metas}
    /\ resolution = NoResolution

\* An exception leaves call_tool: nothing catches it there.
ClientRaise(c) == [c EXCEPT !.pc = "idle", !.result = "raised"]

\* A resource of the client comes into being.
ClientOpen(c, r) == [c EXCEPT !.opened = @ \cup {r}, !.created = @ \cup {r}]

\* _call_direct up to its first await, lines 325-345 and 353.
_call_direct(c, server_id, meta) ==
    LET server_type == Get(meta, "server_type", None)
        conn == c.cur.conn
    IN  IF Get(meta, "server_url", "") = ""
        THEN ClientRaise(c)
        ELSE IF server_id \in DOMAIN c.direct_sessions
        THEN [c EXCEPT !.pc = "k_call", !.cur.conn = c.direct_sessions[server_id]]
        ELSE IF server_type = "streamable-http"
        THEN [ClientOpen(c, Res("http", conn)) EXCEPT
                 !.direct_http_clients = DictSet(@, server_id, conn),
                 !.pc = "k_transport"]
        ELSE IF server_type = "sse"
        THEN [c EXCEPT !.pc = "k_transport"]
        ELSE ClientRaise(c)

\* call_tool up to its first await, lines 191-221.
client_call_tool ==
    /\ client.pc = "idle"
    /\ client.ncalls < MaxClientCalls
    /\ \E name \in ClientNames :
        LET c == [client EXCEPT !.ncalls = @ + 1, !.route = "none", !.result = "none",
                                !.cur = [name |-> name, server_id |-> None,
                                         conn |-> client.ncalls + 1]]
            meta == Get(client.tool_meta, name, EmptyDict)
        IN  client' =
              IF client.sessions # {}
              THEN IF name \notin client.tool_map
                   THEN ClientRaise(c)
                   ELSE LET server_id == ClientServerOf(name)
                            d == [c EXCEPT !.cur.server_id = server_id]
                        IN  IF DirectCall(meta)
                            THEN _call_direct([d EXCEPT !.route = "direct"],
                                              server_id, meta)
                            ELSE IF server_id \notin client.sessions
                            THEN ClientRaise(d)
                            ELSE [d EXCEPT !.route = "gateway", !.pc = "g_call"]
              ELSE IF ~client.session
              THEN ClientRaise(c)
              ELSE IF DirectCall(meta)
              THEN LET server_id == Get(meta, "server_id", "default")
                   IN  _call_direct([c EXCEPT !.route = "direct",
                                              !.cur.server_id = server_id],
                                    server_id, meta)
              ELSE [c EXCEPT !.route = "gateway", !.pc = "g_call"]
    /\ UNCHANGED gwallvars

\* transport.__aenter__() returned (lines 339, 343): the transport is open.
client_transport_entered ==
    /\ client.pc = "k_transport"
    /\ client' = [ClientOpen(client, Res("transport", client.cur.conn)) EXCEPT
                     !.pc = "k_enter"]
    /\ UNCHANGED gwallvars

\* session.__aenter__() returned (line 348).
client_session_entered ==
    /\ client.pc = "k_enter"
    /\ client' = [ClientOpen(client, Res("session", client.cur.conn)) EXCEPT
                     !.pc = "k_init"]
    /\ UNCHANGED gwallvars

\* session.initialize() returned: the session and its transport are recorded
\* (lines 350-351) and the call is sent (line 353).
client_initialized ==
    /\ client.pc = "k_init"
    /\ client' = [client EXCEPT
                     !.direct_sessions = DictSet(@, client.cur.server_id, client.cur.conn),
                     !.direct_contexts = DictSet(@, client.cur.server_id, client.cur.conn),
                     !.pc = "k_call"]
    /\ UNCHANGED gwallvars

\* session.call_tool returned: call_tool returns the text of the result.
client_call_returned ==
    /\ client.pc \in {"k_call", "g_call"}
    /\ client' = [client EXCEPT !.pc = "idle", !.result = "text"]
    /\ UNCHANGED gwallvars

\* The awaited operation raises.
client_await_raised ==
    /\ client.pc \in {"k_transport", "k_enter", "k_init", "k_call", "g_call"}
    /\ client' = ClientRaise(client)
    /\ UNCHANGED gwallvars

\* close, lines 301-308: the closes of the gateway session and of the
\* sessions of the registry are awaited outside any try; one that raises
\* ends close.
client_close ==
    /\ client.pc = "idle"
    /\ \E raises \in BOOLEAN :
        /\ raises => client.mode # "none"
        /\ client' = IF raises
                     THEN [client EXCEPT !.pc = "closed", !.result = "close raised"]
                     ELSE [client EXCEPT !.pc = "x_direct", !.result = "none"]
    /\ UNCHANGED gwallvars

\* The loop close is in: direct sessions (309-313), then direct transports
\* (314-318), then direct HTTP clients (319-323); what it has yet to close.
ClientCloseLoop ==
    LET s == Held("session", client.direct_sessions) \ client.attempted
        c == Held("transport", client.direct_contexts) \ client.attempted
        h == Held("http", client.direct_http_clients) \ client.attempted
    IN  IF s # {} THEN s ELSE IF c # {} THEN c ELSE h

\* One turn of a loop of close: the close is awaited, and an exception of it
\* is passed over.
client_close_attempt ==
    /\ client.pc = "x_direct"
    /\ \E r \in ClientCloseLoop, raises \in BOOLEAN :
        client' = [client EXCEPT !.attempted = @ \cup {r},
                                 !.opened = IF raises THEN @ ELSE @ \ {r}]
    /\ UNCHANGED gwallvars

client_close_return ==
    /\ client.pc = "x_direct"
    /\ ClientCloseLoop = {}
    /\ client' = [client EXCEPT !.pc = "closed"]
    /\ UNCHANGED gwallvars

ClientNext ==
    \/ client_call_tool
    \/ client_transport_entered
    \/ client_session_entered
    \/ client_initialized
    \/ client_call_returned
    \/ client_await_raised
    \/ client_close
    \/ client_close_attempt
    \/ client_close_return

ClientSpec == ClientInit /\ [][ClientNext]_vars

(***************************************************************************)
(* The argument loop of _connect_entry for a stdio server (lines 83-90).   *)
(* A path is its anchor and its components, as pathlib keeps it; the disk  *)
(* is the set of the absolute, normalised paths that exist.                *)
(***************************************************************************)
MaxArgs == 2

Rel(parts) == [abs |-> FALSE, parts |-> parts]

Abs(parts) == [abs |-> TRUE, parts |-> parts]

\* registry_path.parent and the directories the gateway may be started in.
base_dir == Abs(<<"repo">>)

WorkingDirs == {Abs(<<"repo">>), Abs(<<"work">>)}

\* The arguments of an entry: a script, an option, an absolute path, a path
\* that climbs out of the directory it is taken in.
Args == {Rel(<<"server.py">>), Rel(<<"-m">>), Abs(<<"opt", "server.py">>),
         Rel(<<"..", "repo", "server.py">>)}

DiskPaths == {Abs(<<"repo", "server.py">>), Abs(<<"work", "server.py">>),
              Abs(<<"opt", "server.py">>), Abs(<<"repo", "-m">>), Abs(<<"work", "-m">>)}

ArgLists == {a \in UNION {[1..n -> Args] : n \in 0..MaxArgs} : TRUE}

\* pathlib's a / b: an absolute right operand replaces the left one.
Join(a, b) == IF b.abs THEN b ELSE [abs |-> a.abs, parts |-> a.parts \o b.parts]

RECURSIVE Collapse(_, _)
\* The components with every "name/.." pair removed, left to right.
Collapse(done, rest) ==
    IF rest = <<>> THEN done
    ELSE IF Head(rest) = ".."
         THEN Collapse(IF done = <<>> THEN <<>> ELSE SubSeq(done, 1, Len(done) - 1), Tail(rest))
         ELSE Collapse(Append(done, Head(rest)), Tail(rest))

\* Path.resolve(): absolute (from the working directory) and normalised.
Resolve(p, cwd) == LET q == Join(cwd, p) IN Abs(Collapse(<<>>, q.parts))

\* Path.exists(): a relative path is looked up from the working directory.
Exists(p, cwd, disk) == Resolve(p, cwd) \in disk

\* The test of line 87.
Resolves(arg, cwd, disk) ==
    \/ Exists(arg, cwd, disk)
    \/ ~arg.abs /\ Exists(Join(base_dir, arg), cwd, disk)

\* One pass of the loop body, lines 86-90.
ResolveArg(arg, cwd, disk) ==
    IF Resolves(arg, cwd, disk) THEN Resolve(Join(base_dir, arg), cwd) ELSE arg

ArgsInit ==
    /\ registry_file = <<>>
    /\ registry_entries = <<>>
    /\ sessions = EmptyDict
    /\ stdio_contexts = EmptyDict
    /\ http_clients = EmptyDict
    /\ server_tools = <<>>
    /\ tools = <<>>
    /\ tool_map = EmptyDict
    /\ opened = {}
    /\ verified = {}
    /\ secret = None
    /\ phase = "starting"
    /\ idx = 0
    /\ pc = [t \in Tasks |-> "idle"]
    /\ req = [t \in Tasks |-> NoRequest]
    /\ cid = [t \in Tasks |-> NoConn]
    /\ cont = [t \in Tasks |-> "none"]
    /\ calls = 0
    /\ returned = NoReturn
    /\ file0 = [t \in Tasks |-> <<>>]
    /\ prev = [t \in Tasks |-> NoConn]
    /\ outcome = NoOutcome
    /\ attempted = {}
    /\ client = NoClient
    /\ resolution \in {[args |-> a, cwd |-> c, disk |-> d, resolved_args |-> <<>>] :
                          a \in ArgLists, c \in WorkingDirs, d \in SUBSET DiskPaths}

\* The loop of lines 85-90 takes the next argument.
resolve_arg ==
    /\ Len(resolution.resolved_args) < Len(resolution.args)
    /\ LET arg == resolution.args[Len(resolution.resolved_args) + 1] IN
           resolution' = [resolution EXCEPT !.resolved_args =
                             Append(@, ResolveArg(arg, resolution.cwd, resolution.disk))]
    /\ UNCHANGED <<gwvars, secret, phase, idx, taskvars, attempted, client>>

ArgsNext == resolve_arg

ArgsSpec == ArgsInit /\ [][ArgsNext]_vars

RetRegister == returned.req.name = "admin.register_server"

RetUnregister == returned.req.name = "admin.unregister_server"

RetOk == returned.kind = "json" /\ returned.status = "ok"

RetError == returned.kind = "json" /\ returned.status = "error"

\* The id the returned call was about: arguments.get("id", "").
RetId == Get(returned.req.arguments, "id", "")

\* The awaits of _connect_entry: the connect has begun and has not succeeded.
ConnectingPcs == {"c_start", "c_transport", "c_enter", "c_init", "c_list"}

\* Task t is inside the connect of a register_server of entry e.
Connecting(t, e) == pc[t] \in ConnectingPcs /\ req[t].arguments = e

Range(f) == {f[x] : x \in DOMAIN f}

ToolMapIds == {tool_map[n].server_id : n \in DOMAIN tool_map}

\* The id occurs nowhere in the gateway's maps.
Absent(i) ==
    /\ ~OdHas(registry_entries, i)
    /\ i \notin DOMAIN sessions
    /\ i \notin DOMAIN stdio_contexts
    /\ i \notin DOMAIN http_clients
    /\ ~OdHas(server_tools, i)
    /\ i \notin ToolMapIds

-----------------------------------------------------------------------------
\* C1: a register_server that returns an error leaves the registry file as it
\* was when the call began.  returned.file0 is the file of that moment, or
\* Changed once the call itself has changed the file.  Other calls may have
\* written entries of their own in between, so the formula states what the
\* claim requires whatever they did: the call has not changed the file, and
\* the entry it failed to register is in the file only if it was in it when
\* the call began or a connect of that entry has succeeded.
C1_FailedRegisterKeepsFile ==
    (RetRegister /\ RetError) =>
        /\ returned.file0 # Changed
        /\ \A i \in 1..Len(registry_file) :
              registry_file[i] = returned.req.arguments =>
                  \/ \E j \in 1..Len(returned.file0) :
                        returned.file0[j] = registry_file[i]
                  \/ registry_file[i] \in verified

\* C2: when register_server returns its error, nothing that its connect
\* opened (transport, session, HTTP client) is still open.
C2_FailedConnectReleasesAll ==
    (RetRegister /\ RetError) => \A r \in opened : r.conn # returned.cid

\* C3: every entry of the registry file is an entry of the file the gateway
\* loaded or an entry whose connect had succeeded when it was written.  The
\* file is the loaded one until the gateway serves, and it serves only after
\* every loaded entry has connected, so from then on every entry is verified.
C3_FileHoldsOnlyVerified ==
    phase = "serving" =>
        \A i \in 1..Len(registry_file) : registry_file[i] \in verified

\* C4: when register_server or unregister_server returns status ok, the values
\* of registry_entries, in order, are the content of the registry file.
C4_OkReturnConverged ==
    RetOk => OdValues(registry_entries) = registry_file

\* A register_server has returned ok and has changed the file to two entries.
C4_Witness ==
    /\ RetOk /\ RetRegister
    /\ returned.file0 = Changed
    /\ Len(registry_file) > 1

\* C5: what admin.list_servers returns is the content of the registry file,
\* and none of the returned entries is one a register_server is still
\* connecting.
C5_ReadSeesNoDivergence ==
    returned.kind = "list" =>
        /\ returned.servers = registry_file
        /\ \A i \in 1..Len(returned.servers) :
              \A t \in Tasks : ~Connecting(t, returned.servers[i])

\* The connections whose Tool objects the routing table and the catalog hold.
ToolMapConns == {tool_map[n].conn : n \in DOMAIN tool_map}

CatalogConns == {tools[i].conn : i \in 1..Len(tools)}

\* C6: the tool entries of the connection an id had when register_server was
\* called for it (prev) and those of the connection the call makes (cid) are
\* never together in tool_map, nor in tools.
C6_NeverOldAndNew ==
    /\ \A t \in Tasks :
          (req[t].name = "admin.register_server" /\ prev[t] # NoConn) =>
              /\ ~({prev[t], cid[t]} \subseteq ToolMapConns)
              /\ ~({prev[t], cid[t]} \subseteq CatalogConns)
    /\ (RetRegister /\ returned.prev # NoConn) =>
              /\ ~({returned.prev, returned.cid} \subseteq ToolMapConns)
              /\ ~({returned.prev, returned.cid} \subseteq CatalogConns)

\* The server ids of the entries above.
ServerIds == {"a", "b"}

\* The registration state of an id: active while it has a session, else
\* connecting while a register_server of it is inside its connect, else absent.
StateOf(i) ==
    IF i \in DOMAIN sessions THEN "active"
    ELSE IF \E t \in Tasks : pc[t] \in ConnectingPcs
                             /\ Get(req[t].arguments, "id", None) = i
         THEN "connecting"
         ELSE "absent"

AllowedMoves == {<<"absent", "connecting">>, <<"connecting", "active">>,
                 <<"active", "absent">>, <<"connecting", "absent">>}

\* C7: while the gateway serves, the state of an id moves only along absent -> connecting -> active,
\* active -> absent and connecting -> absent; when register_server returns
\* ok the id is in the registry with a session and its tools; when it returns
\* an error the id is in none of the maps.
C7_RegistrationStateMachine ==
    [][/\ \A i \in ServerIds :
             (phase = "serving" /\ StateOf(i)' # StateOf(i)) =>
                <<StateOf(i), StateOf(i)'>> \in AllowedMoves
       /\ (RetRegister' /\ RetOk') =>
             /\ OdHas(registry_entries', RetId')
             /\ RetId' \in DOMAIN sessions'
             /\ OdHas(server_tools', RetId')
       /\ \A i \in ServerIds :
             (RetRegister' /\ RetError' /\ RetId' = i) => Absent(i)'
      ]_vars

FileIds == {registry_file[i].id : i \in 1..Len(registry_file)}

\* C8: an unregister_server of an id that was registered (it did not answer
\* "not found") returns ok, and then the id has no routing-table entry, no
\* session, no tool list, and is in neither registry.
C8_UnregisterRemoves ==
    (RetUnregister /\ returned.kind \in {"json", "raised"} /\ ~RetError) =>
        /\ RetOk
        /\ RetId \notin ToolMapIds
        /\ RetId \notin DOMAIN sessions
        /\ ~OdHas(server_tools, RetId)
        /\ ~OdHas(registry_entries, RetId)
        /\ RetId \notin FileIds

\* Task t begins a call in this step.
Begun(t) ==
    /\ calls' = calls + 1
    /\ pc[t] = "idle"
    /\ pc'[t] # "idle" \/ returned'.task = t

\* The request of the call t begins in this step, as the handler passes it on.
BegunReq(t) == IF pc'[t] # "idle" THEN req'[t] ELSE returned'.req

\* C9: an unregister_server of an id that is not in registry_entries (a missing
\* id is "") returns at once status error, "not found", and leaves
\* registry_entries, sessions, tool_map, server_tools, tools and the file as
\* they were.
C9_UnregisterUnknown ==
    [][\A t \in Tasks :
         (/\ Begun(t)
          /\ BegunReq(t).name = "admin.unregister_server"
          /\ _is_admin_ok(BegunReq(t).arguments)
          /\ ~OdHas(registry_entries, Get(BegunReq(t).arguments, "id", "")))
         => /\ returned'.task = t
            /\ RetError'
            /\ returned'.message = "Server not found"
            /\ UNCHANGED <<registry_entries, sessions, tool_map, server_tools, tools,
                           registry_file>>
      ]_vars

\* An unregister_server without an id has answered "not found" while servers
\* were registered.
C9_Witness ==
    /\ RetUnregister /\ RetError
    /\ "id" \notin DOMAIN returned.req.arguments
    /\ registry_entries # <<>>
    /\ DOMAIN tool_map # {}

\* C10: with a secret configured, an admin call whose admin_token is absent
\* or is not the secret returns the unauthorized result and leaves
\* registry_entries, the file, sessions and tool_map as they were.
C10_WrongTokenRejected ==
    [][\A t \in Tasks :
         (/\ Begun(t)
          /\ secret \notin {None, ""}
          /\ Get(BegunReq(t).arguments, "admin_token", None) # secret)
         => /\ returned'.task = t
            /\ returned'.kind = "unauthorized"
            /\ UNCHANGED <<registry_entries, registry_file, sessions, tool_map>>
      ]_vars

\* A register_server with a wrong token has been refused.
C10_Witness ==
    /\ returned.kind = "unauthorized"
    /\ RetRegister
    /\ secret # None
    /\ Get(returned.req.arguments, "admin_token", None) \notin {None, secret}

\* C11: with no secret configured (the variable unset or empty) no admin call
\* is answered unauthorized, whatever admin_token it carries or lacks.
C11_NoSecretEveryTokenPasses ==
    secret \in {None, ""} => returned.kind # "unauthorized"

\* With an empty secret, admin.list_servers with a token has returned the
\* registry.
C11_Witness ==
    /\ secret = ""
    /\ returned.kind = "list"
    /\ Get(returned.req.arguments, "admin_token", None) = "wrong"

\* C12: whatever an admin call returns is a structured result: an object with
\* a status "ok" or "error" and a message.  A call that returns has kind
\* "json" for such an object, "list" for the object list_registry builds,
\* "unauthorized" or "raised" for the handler's plain error texts.
C12_AdminResultStructured ==
    returned.kind # "none" =>
        /\ returned.kind = "json"
        /\ returned.status \in {"ok", "error"}
        /\ returned.message # None

\* The (server id, original tool name) pair a Tool of the catalog stands for.
PairOf(tool) == <<tool.meta["server_id"], tool.meta["original_name"]>>

\* C13: namespaced names are unique: two tools of the catalog with the same
\* name are tools of the same (server id, original name) pair, and the routing
\* table sends the name of a catalog tool to that tool's pair.
C13_NamespacedNamesUnique ==
    /\ \A i, j \in 1..Len(tools) :
          tools[i].name = tools[j].name => PairOf(tools[i]) = PairOf(tools[j])
    /\ \A i \in 1..Len(tools) :
          tools[i].name \in DOMAIN tool_map =>
              <<tool_map[tools[i].name].server_id,
                tool_map[tools[i].name].original_name>> = PairOf(tools[i])

\* The awaits of _disconnect_entry.
DisconnectingPcs == {"d_sess", "d_ctx", "d_http"}

\* Task t is inside a _disconnect_entry of id i.
Disconnecting(t, i) ==
    pc[t] \in DisconnectingPcs /\ Get(req[t].arguments, "id", None) = i

\* C14: the server id of every routing-table entry has a session in sessions
\* or is the id of a _disconnect_entry that is under way.
C14_RoutesHaveSessionOrTeardown ==
    \A n \in DOMAIN tool_map :
        \/ tool_map[n].server_id \in DOMAIN sessions
        \/ \E t \in Tasks : Disconnecting(t, tool_map[n].server_id)

\* A routing-table entry whose id has no session any more: its disconnect has
\* closed the session and awaits the close of the transport.
C14_Witness ==
    \E n \in DOMAIN tool_map :
        /\ tool_map[n].server_id \notin DOMAIN sessions
        /\ \E t \in Tasks : pc[t] = "d_ctx" /\ Disconnecting(t, tool_map[n].server_id)

\* C15: an id has a session in sessions only if it is in registry_entries.
\* (That its connect succeeded needs no check: sessions[id] is assigned at the
\* end of _connect_entry only.)  unregister_server deletes the registry entry
\* before it awaits the disconnect, so the formula leaves out an id whose
\* _disconnect_entry is under way: it states less than the claim does.
C15_SessionOnlyIfRegistered ==
    \A i \in DOMAIN sessions :
        \/ OdHas(registry_entries, i)
        \/ \E t \in Tasks : Disconnecting(t, i)

\* The concatenation of the tool lists of the connections the gateway has now
\* (list_tools returns self.tools, followed by ADMIN_TOOLS).
CurrentMembership == Flatten(OdValues(server_tools))

\* C16: while the gateway serves (list_tools can run between any two steps),
\* the catalog is the concatenation of the tool lists of the connections the
\* gateway has.
C16_CatalogReflectsMembership ==
    phase = "serving" => tools = CurrentMembership

\* The tool lists of the connected servers, concatenated in the order of
\* registry_entries.
CatalogInRegistryOrder ==
    Flatten([i \in 1..Len(registry_entries) |->
                IF OdHas(server_tools, registry_entries[i].k)
                THEN OdGet(server_tools, registry_entries[i].k)
                ELSE <<>>])

\* C17: after successful register_server and unregister_server calls the
\* catalog is the servers' tools in the order of the in-memory registry.  The
\* formula states it for the first call after startup, so that no failed call
\* precedes: when that call returns ok, tools is CatalogInRegistryOrder.
C17_CatalogInRegistryOrder ==
    (RetOk /\ calls = 1) => tools = CatalogInRegistryOrder

\* The catalog entries of server id i, in catalog order.
EntriesOf(i) == SelectSeq(tools, LAMBDA tl : tl.meta["server_id"] = i)

\* C18: when register_server of a stdio entry returns ok, the catalog entries
\* of its id are one per advertised tool, named "<id>.<tool>", each with
\* direct_call_allowed false and without server_url.
C18_StdioRegisterAddsTools ==
    (RetRegister /\ RetOk /\ ServerType(returned.req.arguments) = "stdio") =>
        LET adv == Advertised(returned.req.arguments)
            got == EntriesOf(RetId)
        IN  /\ Len(got) = Len(adv)
            /\ \A k \in 1..Len(got) :
                  /\ got[k].name = NamespacedName(RetId, adv[k])
                  /\ got[k].meta["direct_call_allowed"] = FALSE
                  /\ "server_url" \notin DOMAIN got[k].meta

\* The kinds of server reached over the network.
NetworkKinds == {"sse", "streamable-http"}

NoUrlRegister(q) ==
    /\ q.name = "admin.register_server"
    /\ ServerType(q.arguments) \in NetworkKinds
    /\ Get(q.arguments, "url", None) \in {None, ""}

\* C20: register_server of a network entry without a url never has a
\* transport, session or HTTP client of its own, neither open nor recorded;
\* it returns status error, and then the id is not in registry_entries and the
\* file is as the call found it (the call has not written it, and the entry is
\* in it only if it was when the call began).
C20_NoUrlRejectedBeforeConnect ==
    /\ \A t \in Tasks :
          (pc[t] # "idle" /\ NoUrlRegister(req[t])) =>
              /\ \A r \in opened : r.conn # cid[t]
              /\ \A i \in DOMAIN http_clients : http_clients[i] # cid[t]
    /\ (returned.kind \in {"json", "raised"} /\ NoUrlRegister(returned.req)) =>
          /\ RetError
          /\ \A r \in opened : r.conn # returned.cid
          /\ \A i \in DOMAIN http_clients : http_clients[i] # returned.cid
          /\ ~OdHas(registry_entries, RetId)
          /\ returned.file0 # Changed
          /\ \A i \in 1..Len(registry_file) :
                registry_file[i] = returned.req.arguments =>
                    \E j \in 1..Len(returned.file0) :
                        returned.file0[j] = registry_file[i]

\* The call t begins in this step is a tool call.
BegunTool(t) == Begun(t) /\ BegunReq(t) \in ToolCalls

RetTool == returned.req \in ToolCalls

\* C21: a tool call whose name is not in tool_map returns at once the text
\* "Error: Unknown tool", is sent on no session, and leaves the gateway's
\* registry, file, sessions, transports, catalog and routing table as they were.
C21_UnknownToolRejected ==
    [][\A t \in Tasks :
         (BegunTool(t) /\ BegunReq(t).name \notin DOMAIN tool_map)
         => /\ returned'.task = t
            /\ returned'.kind = "text"
            /\ returned'.message = "Error: Unknown tool"
            /\ pc'[t] = "idle"
            /\ UNCHANGED gwvars]_vars

\* An unknown name was called while a server was connected and routed.
C21_Witness ==
    /\ RetTool
    /\ returned.req.name = "c.x"
    /\ returned.message = "Error: Unknown tool"
    /\ DOMAIN sessions # {}
    /\ DOMAIN tool_map # {}

\* The name is a namespaced tool name of server i.
ToolOf(i, name) == \E tn \in ToolNames : name = NamespacedName(i, tn)

\* C22 as stated: a call of a tool of a server that had a session and whose
\* unregister_server has just returned ok returns the text
\* "Error: No session for server".
C22_NoSessionAfterUnregister ==
    [][\A t \in Tasks :
         (/\ BegunTool(t)
          /\ RetUnregister /\ RetOk /\ returned.prev # NoConn
          /\ ToolOf(RetId, BegunReq(t).name))
         => /\ returned'.task = t
            /\ returned'.message = "Error: No session for server"]_vars

\* C22: a tool call whose name is in tool_map while the owning server has no
\* session returns at once the text "Error: No session for server" and changes
\* nothing; and that text is returned only while another task is inside a
\* _disconnect_entry of the owning server, never for a call that begins when
\* unregister_server has just returned ok.
C22_NoSessionDuringTeardown ==
    [][\A t \in Tasks :
         BegunTool(t) =>
            LET name == BegunReq(t).name
                nosession == /\ returned'.task = t
                             /\ returned'.message = "Error: No session for server"
            IN  /\ (/\ name \in DOMAIN tool_map
                    /\ tool_map[name].server_id \notin DOMAIN sessions)
                   => nosession /\ returned'.kind = "text" /\ UNCHANGED gwvars
                /\ nosession =>
                      /\ name \in DOMAIN tool_map
                      /\ \E u \in Tasks \ {t} :
                            Disconnecting(u, tool_map[name].server_id)
                      /\ ~(RetUnregister /\ RetOk /\ ToolOf(RetId, name))]_vars

\* The call of a.x returned "No session" while the other task was inside the
\* teardown of an unregister_server of a.
C22_Witness ==
    /\ RetTool
    /\ returned.req.name = "a.x"
    /\ returned.message = "Error: No session for server"
    /\ \E u \in Tasks : /\ Disconnecting(u, "a")
                         /\ req[u].name = "admin.unregister_server"

\* C23: when unregister_server of an id returns ok, the catalog holds no tool
\* of the id and the routing table no entry of it; and a call of a tool of the
\* id that begins then returns the text "Error: Unknown tool".  The id gets
\* routing entries again only when the connect of a register_server of it
\* completes.
C23_UnregisteredToolUnknown ==
    [][/\ (RetUnregister' /\ RetOk') =>
             /\ EntriesOf(RetId)' = <<>>
             /\ \A i \in 1..Len(tools') : ~ToolOf(RetId', tools'[i].name)
             /\ RetId' \notin ToolMapIds'
       /\ \A t \in Tasks :
             (/\ BegunTool(t)
              /\ RetUnregister /\ RetOk
              /\ ToolOf(RetId, BegunReq(t).name))
             => /\ returned'.task = t
                /\ returned'.message = "Error: Unknown tool"
       /\ \A i \in ServerIds :
             (phase = "serving" /\ i \notin ToolMapIds /\ i \in ToolMapIds')
             => \E u \in Tasks : /\ pc[u] = "c_list"
                                 /\ req[u].name = "admin.register_server"
                                 /\ req[u].arguments.id = i]_vars

\* Server a, connected at startup with b, was unregistered, and the call of
\* a.x that followed returned the UnknownTool text.
C23_Witness ==
    /\ RetTool
    /\ returned.req.name = "a.x"
    /\ returned.message = "Error: Unknown tool"
    /\ registry_file = <<SrvB1>>
    /\ DOMAIN tool_map # {}

\* The texts the gateway makes as "Error: ...": lines 265, 270, 370 and 389.
ErrorTexts == {"Error: Unknown tool", "Error: No session for server",
               "Error: unauthorized", "Error: str(e)"}

\* The kinds of result that are a text the handler returns.
TextKinds == {"text", "raised", "json", "list", "unauthorized"}

\* C24: whatever a call returns is a text, never an exception; and the text
\* of a tool call has the form "Error: ..." when the name was not routed, when
\* the owning server had no session, when the session was closed under the
\* call in flight, and when the downstream call raised.
C24_DispatchReturnsText ==
    [][\A t \in Tasks :
         (returned'.task = t) =>
            /\ returned'.kind \in TextKinds
            /\ pc'[t] = "idle"
            /\ returned'.req \in ToolCalls =>
                 LET name == returned'.req.name
                     failed == \/ /\ pc[t] = "idle"
                                  /\ \/ name \notin DOMAIN tool_map
                                     \/ tool_map[name].server_id \notin DOMAIN sessions
                               \/ /\ pc[t] = "t_call"
                                  /\ Res("session", prev[t]) \notin opened
                               \/ returned'.kind = "raised"
                 IN  /\ returned'.kind \in {"text", "raised"}
                     /\ returned'.message # None
                     /\ failed => returned'.message \in ErrorTexts]_vars

\* The session of a call in flight was closed by the other task's teardown,
\* and the call returned the handler's error text.
C24_Witness ==
    /\ RetTool
    /\ returned.kind = "raised"
    /\ returned.message = "Error: str(e)"
    /\ returned.prev # NoConn
    /\ Res("session", returned.prev) \notin opened
    /\ \E u \in Tasks : pc[u] \in DisconnectingPcs

\* C25 as stated: when two admin operations that ran concurrently have both
\* returned, every id whose register_server returned ok and whose
\* unregister_server did not is in registry_entries and in the file, and has
\* an open session in sessions and entries in tool_map.
C25_NoLostUpdate ==
    (phase = "serving" /\ calls = 2 /\ outcome.concurrent /\ Quiescent) =>
        \A i \in outcome.registered \ outcome.unregistered :
            /\ OdHas(registry_entries, i)
            /\ i \in FileIds
            /\ i \in DOMAIN sessions
            /\ Res("session", sessions[i]) \in opened
            /\ i \in ToolMapIds

\* Task t serves a register_server that has not returned.
InRegister(t) == pc[t] # "idle" /\ req[t].name = "admin.register_server"

\* C26 as stated: every register_server that has begun returns, whether or not
\* the peer answers the connect and whether or not the teardown of the id's
\* previous connection completes.
C26_RegisterReturns ==
    \A t \in Tasks : InRegister(t) ~> (pc[t] = "idle")

\* C27 as stated: when close has returned, it has awaited the close of every
\* session, transport context and HTTP client that was open, whichever of
\* these closes raised: what is still open is what it tried to close.
C27_CloseAttemptsAll ==
    phase = "closed" => opened \subseteq attempted

\* The id is in none of the five maps _disconnect_entry clears.
Disconnected(g, i) ==
    /\ i \notin DOMAIN g.sessions
    /\ i \notin DOMAIN g.stdio_contexts
    /\ i \notin DOMAIN g.http_clients
    /\ ~OdHas(g.server_tools, i)
    /\ \A n \in DOMAIN g.tool_map : g.tool_map[n].server_id # i

\* C28 as stated: a _disconnect_entry that leaves its last await does not
\* raise; the id is then in none of sessions, stdio_contexts, http_clients,
\* server_tools and tool_map, and a second _disconnect_entry of the id would
\* run to its end without an await and change nothing.
C28_DisconnectIdempotent ==
    [][\A t \in Tasks :
         (pc[t] \in DisconnectingPcs /\ pc'[t] \notin DisconnectingPcs) =>
            LET server_id == req[t].arguments.id
                again == DisconnectFrom(Gw', server_id, 1)
            IN  /\ returned'.kind # "raised"
                /\ Disconnected(Gw', server_id)
                /\ again.at = "done"
                /\ again.g = Gw']_vars

\* The client begins a call in this step.
ClientBegun == client'.ncalls = client.ncalls + 1

\* C29: a call of the client that is routed at all (the client is connected,
\* and in registry mode the name is in its tool_map) goes the direct way if
\* and only if the tool's metadata has direct_call_allowed true, server_type
\* sse or streamable-http and a non-empty server_url, and through the session
\* to the gateway otherwise; in single-session and in registry mode.
C29_DirectIffEligible ==
    [][ClientBegun =>
         LET name == client'.cur.name
             meta == Get(client.tool_meta, name, EmptyDict)
             eligible ==
                 /\ "direct_call_allowed" \in DOMAIN meta
                 /\ meta["direct_call_allowed"] = TRUE
                 /\ "server_type" \in DOMAIN meta
                 /\ meta["server_type"] \in {"sse", "streamable-http"}
                 /\ "server_url" \in DOMAIN meta
                 /\ meta["server_url"] # ""
             routed == /\ client.mode # "none"
                       /\ client.mode = "registry" => name \in client.tool_map
         IN  /\ client'.route = "direct" <=> (routed /\ eligible)
             /\ client'.route = "gateway" <=> (routed /\ ~eligible)
             /\ client'.route = "direct" =>
                    client'.pc \in {"k_transport", "k_call"}
             /\ client'.route = "gateway" => client'.pc = "g_call"]_vars

\* A direct call was made in registry mode, and a call of a tool whose
\* metadata allows direct calls but names the type stdio went to the gateway.
C29_Witness ==
    /\ client.mode = "registry"
    /\ client.route = "gateway"
    /\ client.cur.name = "b.x"
    /\ Get(client.tool_meta["b.x"], "direct_call_allowed", FALSE) = TRUE
    /\ Get(client.tool_meta["b.x"], "server_type", None) = "stdio"
    /\ Get(client.tool_meta["b.x"], "server_url", "") # ""
    /\ "c" \in DOMAIN client.direct_sessions

\* C30 as stated: a direct call creates an HTTP client, a transport or a
\* session only when direct_sessions holds none for the server id; a call to
\* a server whose session is in direct_sessions is sent on that session; and
\* when close has returned without raising, it has awaited the close of every
\* HTTP client and transport that a direct call created, those of failed
\* attempts included.
C30_DirectSessionsCachedAndReleased ==
    [][/\ client'.created # client.created =>
             client'.cur.server_id \notin DOMAIN client.direct_sessions
       /\ (/\ ClientBegun
           /\ client'.route = "direct"
           /\ client'.cur.server_id \in DOMAIN client.direct_sessions)
          => /\ client'.pc = "k_call"
             /\ client'.cur.conn = client.direct_sessions[client'.cur.server_id]
             /\ client'.created = client.created
       /\ (client'.pc = "closed" /\ client'.result # "close raised") =>
             \A r \in client'.created :
                r.kind \in {"http", "transport"} => r \in client'.attempted]_vars

\* The ids of the first n entries of the file.
FileIdsUpTo(n) == {registry_file[i].id : i \in 1..n}

\* C31: the bulk connect takes the entries of the file one by one in file
\* order (while it runs, and when it has failed, the servers with a session
\* are exactly the entries before the one at idx, whose connect is the next
\* to start or the one that failed); a failure ends it for good: nothing more
\* is connected, no catalog is built, the gateway never serves; and a gateway
\* that serves has connected every entry of the file.
C31_BulkConnectInOrderAndAborts ==
    [][/\ phase' \in {"loading", "failed"} /\ idx' > 0 =>
             /\ DOMAIN sessions' = FileIdsUpTo(idx' - 1)
             /\ tools' = <<>>
       /\ idx' # idx => idx' = idx + 1
       /\ phase = "failed" =>
             /\ phase' = "failed"
             /\ UNCHANGED <<sessions, tools, tool_map, server_tools, opened>>
       /\ phase' = "serving" /\ phase = "loading" =>
             /\ DOMAIN sessions' = FileIds'
             /\ idx' = Len(registry_file) + 1]_vars

\* The first entry of a file of two was connected and the connect of the
\* second failed.
C31_Witness ==
    /\ phase = "failed"
    /\ Len(registry_file) = 2
    /\ idx = 2
    /\ DOMAIN sessions = {registry_file[1].id}
    /\ tools = <<>>

\* C32 as stated: when register_server returns status error, the ids of
\* registry_entries are the ids of the entries of the registry file.
C32_ErrorReturnSameIds ==
    (RetRegister /\ RetError) => OdKeys(registry_entries) = FileIds

\* C33: every argument handed to the subprocess is its path resolved against
\* the registry's base directory when that resolved path exists on disk, and
\* is the argument unchanged in every other case; so it is never a
\* base-directory path that does not exist.
C33_ArgResolvedOnlyIfBasePathExists ==
    \A k \in 1..Len(resolution.resolved_args) :
        LET arg == resolution.args[k]
            target == Resolve(Join(base_dir, arg), resolution.cwd) IN
            resolution.resolved_args[k] =
                IF target \in resolution.disk THEN target ELSE arg

\* C34: an admin call whose admin_token is absent, null or empty is handled as
\* the same call with the field removed: the arguments the handler authorizes
\* and hands to the operation carry no null or empty admin_token.
C34_EmptyTokenNormalizedAway ==
    \A t \in Tasks :
        (pc[t] # "idle" /\ "admin_token" \in DOMAIN req[t].arguments) =>
            req[t].arguments["admin_token"] \notin {None, ""}

\* The entries the registry holds: in memory, in the file, in a listing returned.
StoredEntries ==
    {e.v : e \in Range(registry_entries)}
    \cup Range(registry_file)
    \cup (IF returned.kind = "list" THEN Range(returned.servers) ELSE {})

\* C35: an entry stored by admin.register_server has only the entry fields:
\* the caller's admin_token is in no entry of the in-memory registry, of the
\* registry file or of the output of admin.list_servers.
C35_TokenNeverInEntry ==
    \A e \in StoredEntries : "admin_token" \notin DOMAIN e

\* The names of the downstream tools in the catalog list_tools returns.
CatalogNames == {tools[i].name : i \in 1..Len(tools)}

\* C36: a call of a non-admin name of the catalog, routed to a server that has
\* a session, is sent on that session: no server id makes the handler take the
\* call for an admin call.
C36_CatalogToolDispatched ==
    [][\A t \in Tasks :
         (/\ Begun(t)
          /\ BegunReq(t).name \in CatalogNames
          /\ BegunReq(t).name \in DOMAIN tool_map
          /\ tool_map[BegunReq(t).name].server_id \in DOMAIN sessions)
         => /\ pc'[t] = "t_call"
            /\ prev'[t] = sessions[tool_map[BegunReq(t).name].server_id]]_vars

\* C37: while the calls in progress are register_server calls, a step that
\* makes sessions or stdio_contexts refer to another connection for an id leaves the session or transport it referred to before
\* closed: no connect overwrites the reference to a session that is still open.
C37_NoOverwriteOfOpenSession ==
    [][(/\ outcome.unregistered = {}
        /\ \A u \in Tasks : pc[u] # "idle" => req[u].name = "admin.register_server")
       => /\ \A i \in DOMAIN sessions \cap DOMAIN sessions' :
                sessions'[i] # sessions[i] => Res("session", sessions[i]) \notin opened'
          /\ \A i \in DOMAIN stdio_contexts \cap DOMAIN stdio_contexts' :
                stdio_contexts'[i] # stdio_contexts[i] =>
                    Res("transport", stdio_contexts[i]) \notin opened']_vars

\* C38: when no admin operation is in progress, sessions, stdio_contexts and
\* server_tools have the same keys, the keys of http_clients are among them,
\* and every server id in tool_map is a key of sessions, whatever register and
\* unregister operations, successful or failed, were executed one after the other.
C38_MapsAgreeWhenQuiescent ==
    (phase = "serving" /\ Quiescent) =>
        /\ DOMAIN sessions = DOMAIN stdio_contexts
        /\ DOMAIN sessions = OdKeys(server_tools)
        /\ DOMAIN http_clients \subseteq DOMAIN sessions
        /\ ToolMapIds \subseteq DOMAIN sessions

\* An unregister that succeeded and then a register that failed have been
\* served, and a server with an HTTP client is still connected.
C38_Witness ==
    /\ phase = "serving" /\ Quiescent /\ calls = 2
    /\ RetRegister /\ RetError
    /\ outcome.unregistered # {}
    /\ DOMAIN http_clients # {}
    /\ ToolMapIds # {}

\* Task t takes this step: it moves to another await or its call returns.
Acting(t) == pc'[t] # pc[t] \/ returned'.task = t

\* The server id of the call in which t takes this step.
ActingId(t) ==
    Get(IF pc[t] = "idle" THEN BegunReq(t).arguments ELSE req[t].arguments, "id", "")

AllIds == {"a", "b", "a.x"}

\* The routing-table entries of server id i.
RoutesOf(m, i) == {<<n, m[n]>> : n \in {k \in DOMAIN m : m[k].server_id = i}}

\* What the gateway holds for server id i: session, transport, HTTP client,
\* per-server tool list, routing-table entries, in-memory registry entry.
HeldFor(i) ==
    <<Get(sessions, i, NoConn), Get(stdio_contexts, i, NoConn), Get(http_clients, i, NoConn),
      IF OdHas(server_tools, i) THEN <<OdGet(server_tools, i)>> ELSE <<>>,
      RoutesOf(tool_map, i),
      IF OdHas(registry_entries, i) THEN <<OdGet(registry_entries, i)>> ELSE <<>>>>

\* C39: every step of a register_server or unregister_server on server id A
\* leaves the session, transport, per-server tool list, routing-table entries
\* and in-memory registry entry of every other server id as they were.
C39_OtherServersUntouched ==
    [][\A t \in Tasks :
         (phase = "serving" /\ Acting(t)) =>
             \A i \in AllIds \ {ActingId(t)} : HeldFor(i)' = HeldFor(i)]_vars

\* C40: a register_server whose id is missing or empty returns status error at
\* once and changes nothing: no connection is torn down, no entry is recorded
\* in the in-memory registry, the registry file is not written.
C40_RegisterWithoutIdChangesNothing ==
    [][\A t \in Tasks :
         (/\ Begun(t)
          /\ BegunReq(t).name = "admin.register_server"
          /\ _is_admin_ok(BegunReq(t).arguments)
          /\ Get(BegunReq(t).arguments, "id", "") = "")
         => /\ returned'.task = t
            /\ RetError'
            /\ pc'[t] = "idle"
            /\ UNCHANGED gwvars]_vars

\* A register_server with an empty id has been answered with an error while
\* servers were registered and connected.
C40_Witness ==
    /\ RetRegister /\ RetError
    /\ Get(returned.req.arguments, "id", None) = ""
    /\ returned.message = "Missing required field 'id'"
    /\ registry_entries # <<>>
    /\ DOMAIN sessions # {}

====
